---- MODULE Spec2Model ----
(***************************************************************************)
(* Model of the session-ticket key rotator of renthraysk/tlsutil:          *)
(* KeyRotator.rotate, the run loop KeyRotator.Start, the shutdown          *)
(* handshake KeyRotator.Stop and the option WithSessionTicketKeyRotation.  *)
(*                                                                         *)
(* A 32-byte key is modelled by the index of the successful read that      *)
(* produced it (1, 2, ...); 0 is the all-zero value of a slot of the       *)
(* backing array that no read has filled.                                  *)
(***************************************************************************)
EXTENDS Integers, Sequences, FiniteSets, TLC

\* Largest ring capacity n passed to WithSessionTicketKeyRotation.
MaxN == 3
\* Number of keys the randomness source can supply before it is exhausted.
MaxKeys == 4
\* Width of the call counters rotCalls and sinkWrites (they wrap around).
SeqMod == 4
\* Largest number of options passed to NewTLSConfig.
MaxOpts == 3
\* Largest number of options passed to one Wrap.
MaxWrap == 2

VARIABLES
    n,            \* cap(r.keys), fixed by make([][32]byte, 0, n)
    keys,         \* r.keys
    sink,         \* the keys last handed to cfg.SetSessionTicketKeys
    sinkWrites,   \* number of SetSessionTicketKeys calls, modulo SeqMod
    rotCalls,     \* number of rotate() calls, modulo SeqMod
    nGen,         \* number of successful reads of the randomness source
    err,          \* result of the last rotate(): "none", "nil" or "err"
    disabled,     \* cfg.SessionTicketsDisabled
    regCount,     \* number of g.Add(r) calls
    ctorPc,       \* the option returned by WithSessionTicketKeyRotation
    optRet,       \* what that option returned
    loopPc,       \* position of Start
    startRet,     \* what Start returned
    stopPc,       \* position of Stop
    qClosed,      \* the acknowledgment channel q of Stop is closed
    timerRunning, \* the ticker of Start is running
    tickPending,  \* a tick is buffered in timer.C
    lateStopPc,   \* position of a Stop called when no loop can receive it
    opts,         \* the options passed to NewTLSConfig
    oi,           \* index in opts of the option NewTLSConfig is at
    oj,           \* number of options the Wrap at opts[oi] has applied
    applied,      \* the options applied to cfg so far, in order
    newRet        \* what NewTLSConfig returned

vars == <<n, keys, sink, sinkWrites, rotCalls, nGen, err, disabled, regCount,
          ctorPc, optRet, loopPc, startRet, stopPc, qClosed, timerRunning,
          tickPending, lateStopPc, opts, oi, oj, applied, newRet>>

rotVars == <<keys, sink, sinkWrites, rotCalls, nGen, err>>
loopVars == <<loopPc, startRet, timerRunning>>
stopVars == <<stopPc, qClosed>>
ctorVars == <<n, disabled, regCount, ctorPc, optRet>>
optVars == <<opts, oi, oj, applied, newRet>>

Min(a, b) == IF a < b THEN a ELSE b

\* The first k elements of s (all of s when it is shorter).
Truncate(s, k) == SubSeq(s, 1, Min(Len(s), k))

\* The sequences over S of length lo..hi.
SeqsOf(S, lo, hi) == UNION {[1..k -> S] : k \in lo..hi}

\* An Option whose result is known: a plain option (WithKeyPair, WithTLS12,
\* ...) that fails or not, or a Wrap of plain options.  fails[j] tells
\* whether the j-th plain option returns an error.
Options ==
    {[wrap |-> FALSE, fails |-> f] : f \in SeqsOf(BOOLEAN, 1, 1)}
    \cup {[wrap |-> TRUE, fails |-> f] : f \in SeqsOf(BOOLEAN, 0, MaxWrap)}

\* The nil error, and the error returned by the j-th plain option of
\* opts[i].
NilErr == <<0, 0>>
ErrOf(i, j) == <<i, j>>

TypeOK ==
    /\ lateStopPc \in {"idle", "sending"}
    /\ opts \in SeqsOf(Options, 0, MaxOpts)
    /\ oi \in 1..(MaxOpts + 1)
    /\ oj \in 0..MaxWrap
    /\ applied \in Seq((1..MaxOpts) \X (1..MaxWrap))
    /\ newRet \in [done : BOOLEAN, cfg : BOOLEAN,
                   err : {NilErr} \cup ((1..MaxOpts) \X (1..MaxWrap))]
    /\ n \in 1..MaxN
    /\ keys \in Seq(0..MaxKeys)
    /\ sink \in Seq(0..MaxKeys)
    /\ sinkWrites \in 0..(SeqMod - 1)
    /\ rotCalls \in 0..(SeqMod - 1)
    /\ nGen \in 0..MaxKeys
    /\ err \in {"none", "nil", "err"}
    /\ disabled \in BOOLEAN
    /\ regCount \in Nat
    /\ ctorPc \in {"new", "done"}
    /\ optRet \in {"none", "nil", "err"}
    /\ loopPc \in {"Idle", "Running", "Acking", "Returning", "Stopped"}
    /\ startRet \in {"none", "nil", "err"}
    /\ stopPc \in {"idle", "sending", "waiting", "returned"}
    /\ qClosed \in BOOLEAN
    /\ timerRunning \in BOOLEAN
    /\ tickPending \in BOOLEAN

\* NewTLSConfig has not been entered.
OptionsIdle ==
    /\ oi = 1
    /\ oj = 0
    /\ applied = <<>>
    /\ newRet = [done |-> FALSE, cfg |-> FALSE, err |-> NilErr]

\* r := &KeyRotator{...} on a fresh tls.Config: an empty ring of capacity n.
Init ==
    /\ lateStopPc = "idle"
    /\ opts = <<>>
    /\ OptionsIdle
    /\ n \in 1..MaxN
    /\ keys = <<>>
    /\ sink = <<>>
    /\ sinkWrites = 0
    /\ rotCalls = 0
    /\ nGen = 0
    /\ err = "none"
    /\ disabled = FALSE
    /\ regCount = 0
    /\ ctorPc = "new"
    /\ optRet = "none"
    /\ loopPc = "Idle"
    /\ startRet = "none"
    /\ stopPc = "idle"
    /\ qClosed = FALSE
    /\ timerRunning = FALSE
    /\ tickPending = FALSE

\* r.read: the outcomes of one read of the randomness source.  TRUE is a
\* full 32-byte read, FALSE an error or a short read.
ReadOutcomes == IF nGen < MaxKeys THEN {TRUE, FALSE} ELSE {FALSE}

GrowUnbounded(ks, c) == Append(ks, 0)

\* if len(r.keys) < cap(r.keys) { r.keys = r.keys[:len(r.keys)+1] }
\* The slot the reslice exposes was zeroed by make and never written.
Grow(ks, c) == IF Len(ks) < c THEN Append(ks, 0) ELSE ks

ShiftNone(ks) == ks

\* copy(r.keys[1:], r.keys[:]): element i moves to i+1, the last one is
\* overwritten, keys[0] keeps its value.
Shift(ks) == [i \in 1..Len(ks) |-> IF i = 1 THEN ks[1] ELSE ks[i - 1]]

InstallLast(ks, key) == [ks EXCEPT ![Len(ks)] = key]

\* r.keys[0] = key
Install(ks, key) == [ks EXCEPT ![1] = key]

rotatePublishEarly(ok) ==
    LET shifted == Shift(Grow(keys, n))
        installed == IF ok THEN Install(shifted, nGen + 1) ELSE shifted
    IN  /\ keys' = installed
        /\ sink' = shifted
        /\ sinkWrites' = (sinkWrites + 1) % SeqMod
        /\ rotCalls' = (rotCalls + 1) % SeqMod
        /\ nGen' = IF ok THEN nGen + 1 ELSE nGen
        /\ err' = IF ok THEN "nil" ELSE "err"

rotatePublishTail(ok) ==
    LET shifted == Shift(Grow(keys, n))
        installed == IF ok THEN Install(shifted, nGen + 1) ELSE shifted
    IN  /\ keys' = installed
        /\ sink' = Tail(installed)
        /\ sinkWrites' = (sinkWrites + 1) % SeqMod
        /\ rotCalls' = (rotCalls + 1) % SeqMod
        /\ nGen' = IF ok THEN nGen + 1 ELSE nGen
        /\ err' = IF ok THEN "nil" ELSE "err"

\* KeyRotator.rotate, with ok the outcome of r.read.
rotate(ok) ==
    LET shifted == Shift(Grow(keys, n))
        installed == IF ok THEN Install(shifted, nGen + 1) ELSE shifted
    IN  /\ keys' = installed
        /\ sink' = installed
        /\ sinkWrites' = (sinkWrites + 1) % SeqMod
        /\ rotCalls' = (rotCalls + 1) % SeqMod
        /\ nGen' = IF ok THEN nGen + 1 ELSE nGen
        /\ err' = IF ok THEN "nil" ELSE "err"

ConstructAlwaysAdd ==
    /\ ctorPc = "new"
    /\ \E ok \in ReadOutcomes :
        /\ rotate(ok)
        /\ disabled' = (~ok)
        /\ regCount' = regCount + 1
    /\ ctorPc' = "done"
    /\ optRet' = "nil"
    /\ UNCHANGED <<n, loopVars, stopVars, tickPending>>
    /\ UNCHANGED <<lateStopPc, optVars>>

\* The option returned by WithSessionTicketKeyRotation, applied to cfg.
Construct ==
    /\ ctorPc = "new"
    /\ \E ok \in ReadOutcomes :
        /\ rotate(ok)
        /\ IF ok
             THEN regCount' = regCount + 1 /\ disabled' = disabled
             ELSE disabled' = TRUE /\ regCount' = regCount
    /\ ctorPc' = "done"
    /\ optRet' = "nil"
    /\ UNCHANGED <<n, loopVars, stopVars, tickPending>>
    /\ UNCHANGED <<lateStopPc, optVars>>

StartEnterUnregistered ==
    /\ loopPc = "Idle"
    /\ loopPc' = "Running"
    /\ timerRunning' = TRUE
    /\ UNCHANGED <<rotVars, ctorVars, stopVars, startRet, tickPending>>
    /\ UNCHANGED <<lateStopPc, optVars>>

\* Start is entered by the supervisor the rotator was added to:
\* timer := time.NewTicker(r.duration)
StartEnter ==
    /\ regCount > 0
    /\ loopPc = "Idle"
    /\ loopPc' = "Running"
    /\ timerRunning' = TRUE
    /\ UNCHANGED <<rotVars, ctorVars, stopVars, startRet, tickPending>>
    /\ UNCHANGED <<lateStopPc, optVars>>

\* The running ticker delivers a tick into timer.C (buffer of one).
TimerFire ==
    /\ timerRunning
    /\ ~tickPending
    /\ tickPending' = TRUE
    /\ UNCHANGED <<rotVars, ctorVars, loopVars, stopVars>>
    /\ UNCHANGED <<lateStopPc, optVars>>

TickReadyAfterAck == loopPc \in {"Running", "Returning"} /\ tickPending

\* case <-timer.C is ready
TickReady == loopPc = "Running" /\ tickPending

TickReturnsError ==
    /\ TickReady
    /\ tickPending' = FALSE
    /\ \E ok \in ReadOutcomes :
        /\ rotate(ok)
        /\ IF ok
             THEN UNCHANGED loopVars
             ELSE loopPc' = "Stopped" /\ startRet' = "err"
                  /\ timerRunning' = FALSE
    /\ UNCHANGED <<ctorVars, stopVars>>
    /\ UNCHANGED <<lateStopPc, optVars>>

\* case <-timer.C: r.rotate()
Tick ==
    /\ TickReady
    /\ tickPending' = FALSE
    /\ \E ok \in ReadOutcomes : rotate(ok)
    /\ UNCHANGED <<ctorVars, loopVars, stopVars>>
    /\ UNCHANGED <<lateStopPc, optVars>>

\* Stop is called by the supervisor, after it invoked Start:
\* q := make(chan struct{})
StopCall ==
    /\ loopPc # "Idle"
    /\ stopPc = "idle"
    /\ stopPc' = "sending"
    /\ UNCHANGED <<rotVars, ctorVars, loopVars, qClosed, tickPending>>
    /\ UNCHANGED <<lateStopPc, optVars>>

RecvStopHandlesTick ==
    /\ loopPc = "Running"
    /\ stopPc = "sending"
    /\ loopPc' = "Acking"
    /\ stopPc' = "waiting"
    /\ IF tickPending
         THEN tickPending' = FALSE /\ \E ok \in ReadOutcomes : rotate(ok)
         ELSE UNCHANGED <<rotVars, tickPending>>
    /\ UNCHANGED <<ctorVars, startRet, timerRunning, qClosed>>
    /\ UNCHANGED <<lateStopPc, optVars>>

\* The rendezvous on the unbuffered channel r.stop:
\* r.stop <- q in Stop with case q := <-r.stop in Start.
RecvStop ==
    /\ loopPc = "Running"
    /\ stopPc = "sending"
    /\ loopPc' = "Acking"
    /\ stopPc' = "waiting"
    /\ UNCHANGED <<rotVars, ctorVars, startRet, timerRunning, qClosed,
                   tickPending>>
    /\ UNCHANGED <<lateStopPc, optVars>>

CloseQContinues ==
    /\ loopPc = "Acking"
    /\ qClosed' = TRUE
    /\ loopPc' = "Running"
    /\ UNCHANGED <<rotVars, ctorVars, startRet, timerRunning, stopPc,
                   tickPending>>
    /\ UNCHANGED <<lateStopPc, optVars>>

CloseQSkipped ==
    /\ loopPc = "Acking"
    /\ qClosed' = qClosed
    /\ loopPc' = "Returning"
    /\ UNCHANGED <<rotVars, ctorVars, startRet, timerRunning, stopPc,
                   tickPending>>
    /\ UNCHANGED <<lateStopPc, optVars>>

\* close(q)
CloseQ ==
    /\ loopPc = "Acking"
    /\ qClosed' = TRUE
    /\ loopPc' = "Returning"
    /\ UNCHANGED <<rotVars, ctorVars, startRet, timerRunning, stopPc,
                   tickPending>>
    /\ UNCHANGED <<lateStopPc, optVars>>

\* return nil, running the deferred timer.Stop()
StartReturn ==
    /\ loopPc = "Returning"
    /\ timerRunning' = FALSE
    /\ startRet' = "nil"
    /\ loopPc' = "Stopped"
    /\ UNCHANGED <<rotVars, ctorVars, stopVars, tickPending>>
    /\ UNCHANGED <<lateStopPc, optVars>>

StopReturnNoWait ==
    /\ stopPc = "waiting"
    /\ stopPc' = "returned"
    /\ UNCHANGED <<rotVars, ctorVars, loopVars, qClosed, tickPending>>
    /\ UNCHANGED <<lateStopPc, optVars>>

\* <-q in Stop, then Stop returns
StopReturn ==
    /\ stopPc = "waiting"
    /\ qClosed
    /\ stopPc' = "returned"
    /\ UNCHANGED <<rotVars, ctorVars, loopVars, qClosed, tickPending>>
    /\ UNCHANGED <<lateStopPc, optVars>>

\* The select of Start can receive from r.stop.
StopReceiverReady == loopPc = "Running"

\* Stop is called on a rotator whose Start has left its select for good or
\* that was never registered: q := make(chan struct{}), then r.stop <- q
\* waits for a receiver (StopReceiverReady).
LateStopCall ==
    /\ lateStopPc = "idle"
    /\ \/ loopPc \in {"Acking", "Returning", "Stopped"}
       \/ ctorPc = "done" /\ regCount = 0
    /\ lateStopPc' = "sending"
    /\ UNCHANGED <<rotVars, ctorVars, loopVars, stopVars, tickPending,
                   optVars>>

Next ==
    \/ Construct
    \/ StartEnter
    \/ TimerFire
    \/ Tick
    \/ StopCall
    \/ RecvStop
    \/ CloseQ
    \/ StartReturn
    \/ StopReturn
    \/ LateStopCall

Spec == Init /\ [][Next]_vars

\* The select of Start chooses among its ready cases at random, so a
\* shutdown request that stays ready is eventually chosen; the goroutines
\* of Start and Stop keep being scheduled.
FairSpec ==
    /\ Spec
    /\ SF_vars(RecvStop)
    /\ WF_vars(CloseQ)
    /\ WF_vars(StartReturn)
    /\ WF_vars(StopReturn)

(***************************************************************************)
(* NewTLSConfig and Wrap                                                   *)
(***************************************************************************)

rotatorVars == <<rotVars, ctorVars, loopVars, stopVars, tickPending,
                 lateStopPc>>

\* NewTLSConfig(opts...) is entered with any options; no rotator exists.
OptInit ==
    /\ opts \in SeqsOf(Options, 0, MaxOpts)
    /\ OptionsIdle
    /\ lateStopPc = "idle"
    /\ n = 1
    /\ keys = <<>>
    /\ sink = <<>>
    /\ sinkWrites = 0
    /\ rotCalls = 0
    /\ nGen = 0
    /\ err = "none"
    /\ disabled = FALSE
    /\ regCount = 0
    /\ ctorPc = "new"
    /\ optRet = "none"
    /\ loopPc = "Idle"
    /\ startRet = "none"
    /\ stopPc = "idle"
    /\ qClosed = FALSE
    /\ timerRunning = FALSE
    /\ tickPending = FALSE

\* NewTLSConfig is in its loop, at opts[oi].
AtOption == ~newRet.done /\ oi <= Len(opts)

\* if err := opt(cfg); err != nil { return nil, err }
ReturnErr(e) == newRet' = [done |-> TRUE, cfg |-> FALSE, err |-> e]

\* NewTLSConfig: opt(cfg) for a plain option.
ApplyOption ==
    /\ AtOption
    /\ ~opts[oi].wrap
    /\ applied' = Append(applied, <<oi, 1>>)
    /\ IF opts[oi].fails[1]
         THEN ReturnErr(ErrOf(oi, 1)) /\ oi' = oi
         ELSE oi' = oi + 1 /\ newRet' = newRet
    /\ UNCHANGED <<opts, oj, rotatorVars>>

WrapApplyIgnoresError ==
    /\ AtOption
    /\ opts[oi].wrap
    /\ oj < Len(opts[oi].fails)
    /\ applied' = Append(applied, <<oi, oj + 1>>)
    /\ oj' = oj + 1
    /\ newRet' = newRet
    /\ UNCHANGED <<opts, oi, rotatorVars>>

\* Wrap: opt(cfg) for the next option of the Wrap at opts[oi]; an error is
\* returned by the Wrap and then by NewTLSConfig.
WrapApply ==
    /\ AtOption
    /\ opts[oi].wrap
    /\ oj < Len(opts[oi].fails)
    /\ applied' = Append(applied, <<oi, oj + 1>>)
    /\ IF opts[oi].fails[oj + 1]
         THEN ReturnErr(ErrOf(oi, oj + 1)) /\ oj' = oj
         ELSE oj' = oj + 1 /\ newRet' = newRet
    /\ UNCHANGED <<opts, oi, rotatorVars>>

\* Wrap: return nil after its last option; NewTLSConfig goes on.
WrapReturn ==
    /\ AtOption
    /\ opts[oi].wrap
    /\ oj = Len(opts[oi].fails)
    /\ oi' = oi + 1
    /\ oj' = 0
    /\ UNCHANGED <<opts, applied, newRet, rotatorVars>>

\* NewTLSConfig: return cfg, nil
NewTLSConfigReturn ==
    /\ ~newRet.done
    /\ oi > Len(opts)
    /\ newRet' = [done |-> TRUE, cfg |-> TRUE, err |-> NilErr]
    /\ UNCHANGED <<opts, oi, oj, applied, rotatorVars>>

OptNext ==
    \/ ApplyOption
    \/ WrapApply
    \/ WrapReturn
    \/ NewTLSConfigReturn

OptSpec == OptInit /\ [][OptNext]_vars

(***************************************************************************)
(* Properties of rotate                                                    *)
(***************************************************************************)

\* A step that is one call of rotate() whose read succeeded / failed.
RotateSucceeded == rotCalls' # rotCalls /\ err' = "nil"
RotateFailed == rotCalls' # rotCalls /\ err' = "err"

\* C1: a rotate() whose randomness read succeeds puts the newly generated
\* key at keys[0] and leaves in keys[1:] the previous ring truncated to its
\* first n-1 elements, in the same order.
C1_SuccessfulRotateShifts ==
    [][RotateSucceeded =>
          /\ keys'[1] = nGen'
          /\ nGen' = nGen + 1
          /\ Tail(keys') = Truncate(keys, n - 1)]_vars

\* Scenario A: capacity 3, the fourth successful rotation dropped k1.
C1_Witness ==
    n = 3 /\ nGen = 4 /\ err = "nil" /\ keys = <<4, 3, 2>>

\* C2: a rotate() whose randomness read fails leaves the ring as it was
\* before the call and publishes that unchanged ring to the sink.
C2_FailedRotateKeepsRing ==
    [][RotateFailed => (keys' = keys /\ sink' = keys)]_vars

\* C3: the length of the ring is between 0 and the capacity n in every
\* reachable state.
C3_LenWithinCapacity == 0 <= Len(keys) /\ Len(keys) <= n

\* A full ring of capacity at least 2 in the run loop, after successful
\* rotations and a failed one.
C3_Witness ==
    /\ loopPc = "Running"
    /\ n >= 2
    /\ Len(keys) = n
    /\ nGen >= 2
    /\ err = "err"

\* C4: once Stop has returned there is no further rotation and no further
\* write to the sink.
C4_NoRotationAfterStop ==
    [][stopPc = "returned" =>
          UNCHANGED <<keys, sink, sinkWrites, rotCalls>>]_vars

\* Stop has returned and Start has exited while a tick is still buffered.
C4_Witness ==
    stopPc = "returned" /\ loopPc = "Stopped" /\ tickPending

\* C5: the construction step performs exactly one rotate(); when it fails
\* session tickets are disabled, the rotator is not registered (so Start is
\* never entered) and the step returns nil; when it succeeds the rotator is
\* registered exactly once and session tickets are not disabled.
C5_ConstructionOutcome ==
    /\ ctorPc = "new" =>
          rotCalls = 0 /\ regCount = 0 /\ ~disabled /\ optRet = "none"
    /\ ctorPc = "done" =>
          /\ optRet = "nil"
          /\ loopPc = "Idle" => rotCalls = 1
          /\ IF nGen = 0
               THEN disabled /\ regCount = 0 /\ loopPc = "Idle"
               ELSE regCount = 1 /\ ~disabled

\* Scenario C: the very first read failed.
C5_Witness ==
    ctorPc = "done" /\ err = "err" /\ nGen = 0 /\ disabled /\ regCount = 0

\* C6: every key published to the sink was produced by a successful read;
\* no unfilled (all-zero) slot is ever published.
C6_OnlyGeneratedKeysPublished ==
    \A i \in 1..Len(sink) : sink[i] \in 1..nGen

\* C7: every rotate() publishes exactly once, and the sink's key sequence
\* equals the ring whenever no rotate() is executing.
C7_SinkEqualsRing ==
    sinkWrites = rotCalls /\ sink = keys

\* A failed rotation in the run loop has republished a ring of two or more.
C7_Witness ==
    /\ loopPc = "Running"
    /\ rotCalls >= 2
    /\ err = "err"
    /\ Len(sink) >= 2
    /\ sink = keys

\* C8: a rotate() on a timer tick, failed or not, leaves the loop Running;
\* the loop leaves Running only by receiving a shutdown request; Start
\* never returns an error.
C8_FailedTickKeepsLoopRunning ==
    [][/\ (loopPc = "Running" /\ rotCalls' # rotCalls) => loopPc' = "Running"
       /\ (loopPc = "Running" /\ loopPc' # "Running") =>
              (stopPc = "sending" /\ stopPc' = "waiting")
       /\ startRet' # "err"]_vars

\* The loop is Running after a failed tick followed by a successful one:
\* of three or more rotations one failed, the seeding and the last did not.
C8_Witness ==
    /\ loopPc = "Running"
    /\ rotCalls = 3
    /\ nGen = 2
    /\ err = "nil"
    /\ keys[1] = 2

\* C9: once Stop has been called on a started loop, Stop eventually
\* returns and the loop eventually reaches Stopped.
C9_StopEventuallyReturns ==
    (stopPc = "sending") ~> (stopPc = "returned" /\ loopPc = "Stopped")

\* The handshake completed after the loop handled ticks.
C9_Witness ==
    stopPc = "returned" /\ loopPc = "Stopped" /\ nGen >= 3

\* C10: once a rotation has succeeded, keys[0] is the key generated by the
\* most recent successful rotation.
C10_FrontIsNewest == nGen >= 1 => keys[1] = nGen

\* A failed rotation after two successful ones kept the newest in front.
C10_Witness ==
    nGen >= 2 /\ err = "err" /\ Len(keys) >= 2 /\ keys[1] = nGen

(***************************************************************************)
(* Properties of the shutdown handshake, retention and the options         *)
(***************************************************************************)

\* C11: at the moment Stop returns, Start has already returned and the loop
\* is in the terminal Stopped state.
C11_StopReturnsAfterStartReturned ==
    stopPc = "returned" => loopPc = "Stopped"

\* C11 (amended): when Stop returns, the loop has received the request and
\* closed the acknowledgment channel, so it is past its select for good;
\* Start itself may not have returned yet.
C11_StopReturnsAfterAck ==
    stopPc = "returned" => (qClosed /\ loopPc \in {"Returning", "Stopped"})

\* Stop has returned while Start has not: its deferred timer.Stop() is
\* still to run.
C11_Witness ==
    stopPc = "returned" /\ loopPc = "Returning" /\ timerRunning

\* C12: a key of the ring is in neither the ring nor the sink after n
\* further successful rotations: every generated key still held is one of
\* the n most recently generated.
C12_BoundedRetention ==
    /\ \A i \in 1..Len(keys) : keys[i] # 0 => keys[i] > nGen - n
    /\ \A i \in 1..Len(sink) : sink[i] # 0 => sink[i] > nGen - n

\* After n+1 successful rotations (and a failed one) the first generated
\* key is gone.
C12_Witness ==
    /\ n >= 2
    /\ nGen = n + 1
    /\ rotCalls # nGen % SeqMod
    /\ Len(keys) = n
    /\ \A i \in 1..Len(keys) : keys[i] # 1
    /\ \A i \in 1..Len(sink) : sink[i] # 1

\* C13: with a randomness source that never repeats a key, no key occupies
\* two positions of the ring.
C13_NoKeyTwice ==
    \A i, j \in 1..Len(keys) : i # j => keys[i] # keys[j]

\* C14: the seeding rotate() is the only one before the rotator is
\* registered and is complete (ring and sink updated, g.Add done) before
\* Start is entered; every later rotate() is a step of the one run loop, so
\* no two rotate() calls overlap.
C14_RotationsSerialized ==
    [][/\ loopPc' # "Idle" =>
              /\ ctorPc' = "done"
              /\ regCount' = 1
              /\ nGen' >= 1
       /\ (loopPc = "Idle" /\ loopPc' # "Idle") =>
              (rotCalls = 1 /\ sinkWrites = 1 /\ sink = keys /\ keys # <<>>)
       /\ rotCalls' # rotCalls =>
              \/ ctorPc = "new" /\ loopPc = "Idle" /\ regCount = 0
                    /\ rotCalls = 0
              \/ ctorPc = "done" /\ loopPc = "Running" /\ loopPc' = "Running"
                    /\ tickPending /\ ~tickPending']_vars

\* The run loop has rotated after the seeding rotation.
C14_Witness ==
    ctorPc = "done" /\ loopPc = "Running" /\ regCount = 1 /\ rotCalls = 2

\* C15: a step of the loop handles a tick or the shutdown request, never
\* both; the acknowledgment is fired once, after the request was received;
\* no rotate() or sink write happens once the request was received.
C15_TickOrShutdown ==
    [][/\ rotCalls' # rotCalls => (loopPc' = loopPc /\ stopPc' = stopPc)
       /\ (loopPc = "Running" /\ loopPc' # "Running") =>
              /\ stopPc = "sending" /\ stopPc' = "waiting"
              /\ UNCHANGED <<rotVars, tickPending>>
       /\ qClosed' # qClosed =>
              (~qClosed /\ loopPc = "Acking" /\ stopPc = "waiting")
       /\ qClosed' <=> loopPc' \in {"Returning", "Stopped"}
       /\ loopPc \in {"Acking", "Returning", "Stopped"} =>
              UNCHANGED rotVars]_vars

\* The acknowledgment was fired with a tick left unhandled, after the loop
\* had handled earlier ticks.
C15_Witness ==
    qClosed /\ tickPending /\ nGen >= 2 /\ loopPc = "Returning"

\* C16: the timer is stopped before the acknowledgment is fired, and it is
\* stopped whenever Start has returned.
C16_TimerStoppedBeforeAck ==
    /\ qClosed => ~timerRunning
    /\ loopPc = "Stopped" => ~timerRunning

\* The leaves of opts[i], opts[i+1], ... in the order given.
RECURSIVE LeavesFrom(_, _)
LeavesFrom(os, i) ==
    IF i > Len(os) THEN <<>>
    ELSE [j \in 1..Len(os[i].fails) |-> <<i, j>>] \o LeavesFrom(os, i + 1)

Leaves == LeavesFrom(opts, 1)
LeafFails(l) == opts[l[1]].fails[l[2]]
FailingLeaves == {k \in 1..Len(Leaves) : LeafFails(Leaves[k])}

\* C17: the options are applied in the order given, each at most once;
\* none is applied after the first that fails, whose error is returned
\* without a configuration; if none fails all are applied and the
\* configuration is returned with a nil error.
C17_OptionsInOrderUntilError ==
    /\ Len(applied) <= Len(Leaves)
    /\ applied = SubSeq(Leaves, 1, Len(applied))
    /\ \A k \in 1..(Len(applied) - 1) : ~LeafFails(applied[k])
    /\ ~newRet.done => \A k \in 1..Len(applied) : ~LeafFails(applied[k])
    /\ newRet.done =>
          IF FailingLeaves = {}
            THEN applied = Leaves /\ newRet.cfg /\ newRet.err = NilErr
            ELSE /\ applied # <<>>
                 /\ LeafFails(applied[Len(applied)])
                 /\ newRet.err = applied[Len(applied)]
                 /\ ~newRet.cfg

\* An option inside a Wrap failed after earlier options had been applied
\* and before the last option was reached.
C17_Witness ==
    /\ newRet.done
    /\ ~newRet.cfg
    /\ newRet.err[2] = 2
    /\ Len(applied) >= 3
    /\ Len(applied) < Len(Leaves)

\* C18: every key sequence passed to the sink has a length between 1 and
\* the capacity n.
C18_PublishedLength ==
    [][sinkWrites' # sinkWrites =>
          (1 <= Len(sink') /\ Len(sink') <= n)]_vars

\* The seeding rotation failed and a sequence of length 1 was published.
C18_Witness ==
    sinkWrites = 1 /\ err = "err" /\ nGen = 0 /\ Len(sink) = 1

\* C19: a Stop called when no run loop will receive its request never
\* returns: it stays at its send, no receiver for r.stop ever becomes
\* ready, and the call changes neither the ring nor the sink.
C19_LateStopBlocksForever ==
    [][/\ lateStopPc = "sending" => lateStopPc' = "sending"
       /\ lateStopPc' = "sending" => ~StopReceiverReady'
       /\ lateStopPc' # lateStopPc => UNCHANGED rotVars]_vars

\* A second Stop is blocked after the first one returned.
C19_Witness ==
    lateStopPc = "sending" /\ stopPc = "returned" /\ loopPc = "Stopped"

====
